---- MODULE Spec2Model ----
(***************************************************************************)
(* Model of the NationStates API client of anjo0803/owl:                   *)
(*   - the request builders and their send() chains (requests.js),         *)
(*   - the client NSAPI with its rate limiter and sendRequest (api),       *)
(*   - the credential refreshed from response headers.                     *)
(* JavaScript strings are modelled as sequences of atoms: an atom is a     *)
(* single character or an indivisible word, so that join/split/indexing    *)
(* are computed as the code computes them.                                 *)
(***************************************************************************)
EXTENDS Integers, Sequences, FiniteSets, TLC

VARIABLES
    cred,        \* the NSCredential object shared by reference: pwd, auto, pin
    autoauth,    \* NSAPI.#autoauth: is the default credential set
    reqs,        \* the request objects built so far
    sends,       \* the send() invocations: one frame per call
    requests,    \* NSAPI.#requests: the rate limiter's tracked expiry slots
    timers,      \* pending setTimeout callbacks
    microtasks,  \* promise continuations ready to run, in FIFO order
    now,         \* Date.now()
    admitLog,    \* history: transport calls in the order they reached #complyWithLimit
    fetchLog,    \* history: fetch() calls in the order they were issued
    votes,       \* Debate.#votes: the cached ballots, the voters of each stance
    calls        \* history: the countVote/discountVote calls and their database statements

vars == <<cred, autoauth, reqs, sends, requests, timers, microtasks, now, admitLog, fetchLog,
          votes, calls>>

-----------------------------------------------------------------------------
(* Bounds of the model *)

MaxRequests == 1      \* request objects built
MaxBuilderOps == 2    \* builder calls per request object
MaxSends == 2         \* send() invocations
MaxTicks == 3         \* clock advances
TickMs == 15000       \* length of one clock advance
BurstCalls == 50      \* sendRequest calls of the burst specification
MaxCalls == 2         \* countVote/discountVote calls on the Debate

(* Program constants *)

RatelimitPeriod == 30000
RatelimitAmount == 49
FOR == 0              \* $.BALLOTS
AGAINST == 1
ABSTAIN == 2

-----------------------------------------------------------------------------
(* JavaScript values *)

Undef == "undefined"                     \* undefined, for credential fields and headers
Truthy(v) == v # Undef /\ v # ""

Num(n) == [nan |-> FALSE, n |-> n]
NaN == [nan |-> TRUE, n |-> 0]
JsGe(a, b) == ~a.nan /\ ~b.nan /\ a.n >= b.n
JsGt(a, b) == ~a.nan /\ ~b.nan /\ a.n > b.n
JsAdd(a, b) == IF a.nan \/ b.nan THEN NaN ELSE Num(a.n + b.n)
JsSub(a, b) == IF a.nan \/ b.nan THEN NaN ELSE Num(a.n - b.n)

\* arr[i] of a JavaScript array: undefined (NaN in arithmetic) outside the indices
JsIndex(arr, i) == IF ~i.nan /\ i.n >= 0 /\ i.n < Len(arr) THEN arr[i.n + 1] ELSE NaN

\* Array.prototype.indexOf: strict equality, so NaN is never found; -1 when absent
JsIndexOf(arr, v) ==
    IF v.nan \/ ~(\E i \in 1..Len(arr) : ~arr[i].nan /\ arr[i].n = v.n) THEN 0 - 1
    ELSE (CHOOSE i \in 1..Len(arr) :
            /\ ~arr[i].nan /\ arr[i].n = v.n
            /\ \A j \in 1..(i - 1) : arr[j].nan \/ arr[j].n # v.n) - 1

\* mutant: a start of -1 (nothing found) removes nothing
JsSplice1Found(arr, start) ==
    IF start < 0 \/ start >= Len(arr) THEN arr
    ELSE SubSeq(arr, 1, start) \o SubSeq(arr, start + 2, Len(arr))

\* arr.splice(start, 1): a negative start counts from the end
JsSplice1(arr, start) ==
    LET s == IF start < 0 THEN (IF Len(arr) + start < 0 THEN 0 ELSE Len(arr) + start)
             ELSE (IF start > Len(arr) THEN Len(arr) ELSE start)
    IN  IF s >= Len(arr) THEN arr
        ELSE SubSeq(arr, 1, s) \o SubSeq(arr, s + 2, Len(arr))

RECURSIVE Join(_, _)
\* Array.prototype.join(sep) over strings
Join(vals, sep) ==
    IF Len(vals) = 0 THEN <<>>
    ELSE IF Len(vals) = 1 THEN vals[1]
    ELSE vals[1] \o <<sep>> \o Join(Tail(vals), sep)

RECURSIVE SplitFrom(_, _, _)
SplitFrom(str, sep, cur) ==
    IF Len(str) = 0 THEN <<cur>>
    ELSE IF Head(str) = sep THEN <<cur>> \o SplitFrom(Tail(str), sep, <<>>)
    ELSE SplitFrom(Tail(str), sep, Append(cur, Head(str)))

\* String.prototype.split(sep): the empty string splits into one empty string
Split(str, sep) == SplitFrom(str, sep, <<>>)

\* Array.prototype.includes
Includes(arr, v) == \E i \in 1..Len(arr) : arr[i] = v

\* String.prototype.trim
Trim(str) ==
    LET solid == {i \in 1..Len(str) : str[i] # " "}
    IN  IF solid = {} THEN <<>>
        ELSE SubSeq(str, CHOOSE i \in solid : \A j \in solid : i <= j,
                         CHOOSE i \in solid : \A j \in solid : i >= j)

Digits == {"0", "1"}
DigitValue(c) == IF c = "1" THEN 1 ELSE 0

RECURSIVE DecimalValue(_)
DecimalValue(str) ==
    IF Len(str) = 0 THEN 0
    ELSE 10 * DecimalValue(SubSeq(str, 1, Len(str) - 1)) + DigitValue(str[Len(str)])

\* ToNumber of a string, as the loose == applies it: blank is 0, digits are their
\* decimal value, anything else is NaN
ToNumber(str) ==
    IF Trim(str) = <<>> THEN Num(0)
    ELSE IF \A i \in 1..Len(Trim(str)) : Trim(str)[i] \in Digits THEN Num(DecimalValue(Trim(str)))
    ELSE NaN

\* str == n for a string and a number
LooseEq(str, n) == ~ToNumber(str).nan /\ ToNumber(str).n = n

-----------------------------------------------------------------------------
(* Enumerations *)

NationPrivateShard ==
    {<<"dossier">>, <<"rdossier">>, <<"issues">>, <<"issuesummary">>, <<"nextissue">>,
     <<"nextissuetime">>, <<"notices">>, <<"packs">>, <<"ping">>, <<"unread">>}

TG_RECRUITABLE == <<"tgcanrecruit">>
TG_CAMPAIGNABLE == <<"tgcancampaign">>

\* WorldShard
DISPATCH == <<"dispatch">>
DISPATCH_LIST == <<"dispatchlist">>
HAPPENINGS == <<"happenings">>
POLL == <<"poll">>

-----------------------------------------------------------------------------
(* Request builders *)

HasArg(r, key) == key \in DOMAIN r.apiArgs

\* NSRequest.args(key, ...values): stores values.join('+'); join turns undefined into ''
args(r, key, values) ==
    [r EXCEPT !.apiArgs = [k \in (DOMAIN r.apiArgs) \cup {key} |->
                              IF k = key THEN Join(values, "+") ELSE r.apiArgs[k]]]

\* the length test of NSRequest.send on one required argument
ArgSet(r, key) == HasArg(r, key) /\ Len(r.apiArgs[key]) > 0

\* ShardableRequest.getShards, defined when the q argument is set
getShards(r) == Split(r.apiArgs["q"], "+")

\* ShardableRequest.shard(...shards)
shard(r, shards) == args(r, "q", shards)

\* ShardableRequest.addShards(...shards): the array is handed to args() as ONE value,
\* and join() stringifies an array element with commas
addShards(r, shards) == args(r, "q", << Join(getShards(r) \o shards, ",") >>)

\* ShardableRequest.requireShard(shard)
requireShard(r, s) == IF ~Includes(getShards(r), s) THEN addShards(r, <<s>>) ELSE r

\* NationRequest.setTGFrom(from)
setTGFrom(r, from) ==
    LET r1 == IF ~Includes(getShards(r), TG_CAMPAIGNABLE) /\ ~Includes(getShards(r), TG_RECRUITABLE)
              THEN requireShard(r, TG_RECRUITABLE) ELSE r
    IN  args(r1, "from", <<from>>)

\* the character table of String.prototype.toLowerCase
LowerChar(c) ==
    CASE c = "N" -> "n"
      [] c = "L" -> "l"
      [] OTHER -> c

\* mutant: replace(' ', '_') replaces the first space only
NormalizeFirstSpace(name) ==
    [i \in 1..Len(name) |->
        IF name[i] = " " /\ (\A j \in 1..(i - 1) : name[j] # " ") THEN "_" ELSE LowerChar(name[i])]

\* name?.toLowerCase().replace(/ /g, '_')
NormalizeName(name) ==
    [i \in 1..Len(name) |-> IF LowerChar(name[i]) = " " THEN "_" ELSE LowerChar(name[i])]

-----------------------------------------------------------------------------
(* Request construction *)

\* NSRequest.constructor(api, ...required)
NSRequest(type, required) ==
    [type |-> type, apiArgs |-> <<>>, requiredArgs |-> required,
     loginCredentials |-> FALSE, ops |-> 0, threw |-> FALSE, asked |-> <<>>, last |-> "",
     error |-> "", given |-> <<>>]

\* NationRequest.constructor(api, nname, ...required)
NationRequest(type, nname, required) ==
    [args(NSRequest(type, <<"nation">> \o required), "nation", <<NormalizeName(nname)>>)
        EXCEPT !.given = nname]

\* NationRequest.authenticate(credential)
authenticate(r, credential) ==
    IF credential THEN [r EXCEPT !.loginCredentials = TRUE] ELSE r

\* NSAPI.nation(name)
nation(name) ==
    LET ret == NationRequest("nation", name, <<>>)
    IN  IF autoauth THEN authenticate(ret, autoauth) ELSE ret

\* NSAPI.region(name), RegionRequest.constructor
region(name) ==
    [args(NSRequest("region", <<"region">>), "region", <<NormalizeName(name)>>)
        EXCEPT !.given = name]

\* NSAPI.world(), WorldRequest
world == NSRequest("world", <<>>)

\* NSAPI.wa(council), WARequest.constructor
wa(council) == args(NSRequest("wa", <<"wa">>), "wa", <<council>>)

\* NSAPI.verify(name, checksum), VerificationRequest.constructor
verify(name, checksum) ==
    args(args(NationRequest("verify", name, <<"a", "checksum">>), "a", <<<<"verify">>>>),
         "checksum", <<checksum>>)

\* NSAPI.ua(), UserAgentRequest.constructor
ua == args(NSRequest("ua", <<"a">>), "a", <<<<"useragent">>>>)

\* CommandRequest.constructor(api, nname, credential, ...required), for a credential
\* that is set: without one the constructor throws and no object exists
CommandRequest(type, nname, required) ==
    [args(NSRequest(type, <<"c", "nation">> \o required), "nation", <<NormalizeName(nname)>>)
        EXCEPT !.loginCredentials = TRUE, !.given = nname]

\* TwoStepCommand.constructor
TwoStepCommand(type, nname, required) ==
    args(CommandRequest(type, nname, <<"mode">> \o required), "mode", <<<<"prepare">>>>)

\* NSAPI.issue(name, login), IssueCommand.constructor
issue(name) == args(CommandRequest("issue", name, <<"issue", "option">>), "c", <<<<"issue">>>>)

\* NSAPI.giftcard(name, login), GiftcardCommand.constructor
giftcard(name) ==
    args(TwoStepCommand("giftcard", name, <<"cardid", "season", "to">>), "c", <<<<"giftcard">>>>)

\* NSAPI.createDispatch(name, login), DispatchCommand.constructor with action 'add'
createDispatch(name) ==
    args(args(TwoStepCommand("dispatch", name, <<"dispatch">>), "c", <<<<"dispatch">>>>),
         "dispatch", <<<<"add">>>>)

\* NSAPI.editDispatch(name, login), DispatchCommand.constructor with action 'edit'
editDispatch(name) ==
    args(args(TwoStepCommand("dispatch", name, <<"dispatch">>), "c", <<<<"dispatch">>>>),
         "dispatch", <<<<"edit">>>>)

\* NSAPI.deleteDispatch(name, login), DispatchCommand.constructor with action 'remove'
deleteDispatch(name) ==
    args(args(TwoStepCommand("dispatch", name, <<"dispatch">>), "c", <<<<"dispatch">>>>),
         "dispatch", <<<<"remove">>>>)

\* RMBPostCommand.constructor
rmbpost(name) ==
    args(TwoStepCommand("rmbpost", name, <<"region", "text">>), "c", <<<<"rmbpost">>>>)

\* mutant: the constructor stores whatever credential it is given
CredentialStored(r, credential) == [r EXCEPT !.loginCredentials = credential]

\* the end of CommandRequest.constructor for the object r built so far:
\* if(credential) this.loginCredentials = credential; else throw new AuthenticationError()
\* (a constructor that throws leaves no object: the record keeps the exception)
CredentialRequired(r, credential) ==
    IF credential THEN [r EXCEPT !.loginCredentials = credential]
    ELSE [r EXCEPT !.loginCredentials = FALSE, !.threw = TRUE, !.last = "constructor",
                   !.error = "AuthenticationError"]

\* does the outcome of a factory call hold an object
Exists(r) == ~(r.last = "constructor" /\ r.threw)

\* IssueCommand.select(issue, option)
select(r, i, o) == args(args(r, "issue", <<i>>), "option", <<o>>)

\* GiftcardCommand.setCard(id, season)
setCard(r, id, season) == args(args(r, "cardid", <<id>>), "season", <<season>>)

\* GiftcardCommand.setRecipient(target)
setRecipient(r, target) == args(r, "to", <<target>>)

\* WorldRequest.setDispatchID(id)
setDispatchID(r, id) == args(requireShard(r, DISPATCH), "dispatchid", <<id>>)

\* WorldRequest.setDispatchAuthor(author)
setDispatchAuthor(r, author) ==
    args(requireShard(r, DISPATCH_LIST), "dispatchauthor", <<NormalizeName(author)>>)

\* WorldRequest.setHappeningsLimit(limit)
setHappeningsLimit(r, limit) == args(requireShard(r, HAPPENINGS), "limit", <<limit>>)

\* WorldRequest.setPollID(id)
setPollID(r, id) == args(requireShard(r, POLL), "pollid", <<id>>)

\* the convenience setters of WorldRequest and the shard each requires
WorldSetters == {"setDispatchID", "setDispatchAuthor", "setHappeningsLimit", "setPollID"}
ImpliedShard(setter) ==
    CASE setter = "setDispatchID" -> DISPATCH
      [] setter = "setDispatchAuthor" -> DISPATCH_LIST
      [] setter = "setHappeningsLimit" -> HAPPENINGS
      [] setter = "setPollID" -> POLL

WAVoteShards == {<<"voters">>, <<"votetrack">>, <<"dellog">>, <<"delvotes">>}
RESOLUTION_AT_VOTE == <<"resolution">>

\* WARequest.shard(...shards): super.shard(shards) hands the array over as one value
WAshard(r, shards) ==
    LET r1 == IF \E s \in WAVoteShards : Includes(shards, s)
              THEN requireShard(r, RESOLUTION_AT_VOTE) ELSE r
    IN  args(r1, "q", << Join(shards, ",") >>)

Nation == {"nation", "verify"}              \* instanceof NationRequest
Command == {"issue", "giftcard", "dispatch", "rmbpost"} \* instanceof CommandRequest
TwoStep == {"giftcard", "dispatch", "rmbpost"}          \* instanceof TwoStepCommand
Shardable == {"nation", "verify", "region", "world", "wa"}
CensusCapable == {"nation", "verify", "region", "world"}  \* instanceof ShardableCensusRequest

\* ShardableCensusRequest.setCensusMode(...modes)
setCensusMode(r, modes) == args(r, "mode", modes)

\* the ballots of a Debate before any is cached (Debate.create)
NoVotes == [f |-> <<>>, a |-> <<>>, x |-> <<>>]

(* Inputs of the builders *)
NoName == <<>>                                \* an omitted name: join() makes it ''
LongName == <<"N", " ", "L", " ", "a">>
NameInputs == {NoName, <<"N", " ", "L">>, LongName}
ShardInputs(type) ==
    IF type = "wa" THEN {<<<<"numnations">>>>, <<<<"voters">>, <<"numnations">>>>}
    ELSE IF type \in Nation THEN {<<<<"name">>>>, <<<<"dossier">>>>, <<<<"name">>, <<"dossier">>>>}
    ELSE {<<<<"name">>>>, <<<<"name">>, <<"numnations">>>>, <<<<"name">>, <<"name">>>>}
OneShard(type) == IF type \in Nation THEN {<<"name">>, <<"dossier">>} ELSE {<<"name">>}

\* the builder calls offered on a request object; a call that reads the shard list
\* before q is set throws a TypeError and leaves the request as it was
Throws(r, op) ==
    \/ /\ ~HasArg(r, "q")
       /\ \/ op.name \in {"addShards", "requireShard", "setTGFrom"} \cup WorldSetters
          \/ op.name = "shard" /\ r.type = "wa" /\ \E s \in WAVoteShards : Includes(op.shards, s)
    \* setCensusHistoryWindow starts with this.setHappeningsMode('history'): no class
    \* defines a method of that name, so the call is a TypeError before any args()
    \/ op.name = "setCensusHistoryWindow"

BuilderOps(r) ==
    (IF r.type \in Shardable
     THEN [name : {"shard", "addShards"}, shards : ShardInputs(r.type)]
          \cup [name : {"requireShard"}, shards : {<<s>> : s \in OneShard(r.type)}]
     ELSE {})
    \cup (IF r.type \in Nation
          THEN [name : {"setTGFrom", "authenticate"}, shards : {<<>>}] ELSE {})
    \cup (IF r.type \in CensusCapable
          THEN [name : {"setCensusMode", "setCensusHistoryWindow"}, shards : {<<>>}] ELSE {})
    \cup (IF r.type = "world" THEN [name : WorldSetters, shards : {<<>>}] ELSE {})
    \cup (IF r.type = "issue" THEN [name : {"select"}, shards : {<<>>}] ELSE {})
    \cup (IF r.type = "giftcard" THEN [name : {"setCard", "setRecipient"}, shards : {<<>>}] ELSE {})

Apply(r, op) ==
    CASE op.name = "shard" -> IF r.type = "wa" THEN WAshard(r, op.shards) ELSE shard(r, op.shards)
      [] op.name = "addShards" -> addShards(r, op.shards)
      [] op.name = "requireShard" -> requireShard(r, op.shards[1])
      [] op.name = "setTGFrom" -> setTGFrom(r, <<"x">>)
      [] op.name = "authenticate" -> authenticate(r, TRUE)
      [] op.name = "setCensusMode" -> setCensusMode(r, <<<<"score">>>>)
      [] op.name = "setDispatchID" -> setDispatchID(r, <<"7">>)
      [] op.name = "setDispatchAuthor" -> setDispatchAuthor(r, LongName)
      [] op.name = "setHappeningsLimit" -> setHappeningsLimit(r, <<"7">>)
      [] op.name = "setPollID" -> setPollID(r, <<"7">>)
      [] op.name = "select" -> select(r, <<"7">>, <<"1">>)
      [] op.name = "setCard" -> setCard(r, <<"3">>, <<"2">>)
      [] op.name = "setRecipient" -> setRecipient(r, <<"y">>)

\* NSAPI.permanentAuthentication = credential
SetPermanentAuthentication ==
    /\ ~autoauth
    /\ reqs = <<>>
    /\ autoauth' = TRUE
    /\ UNCHANGED <<cred, reqs, sends, requests, timers, microtasks, now, admitLog, fetchLog, votes, calls>>

\* the factory methods of NSAPI
NewRequests ==
    {nation(n) : n \in NameInputs} \cup {region(n) : n \in NameInputs}
    \cup {world, ua, wa(<<"1">>)}
    \cup {verify(<<"N", " ", "L">>, c) : c \in {<<>>, <<"c", "s">>}}
    \cup {verify(LongName, <<"c", "s">>)}
    \cup {CredentialRequired(c, login) :
              c \in {issue(<<"N", " ", "L">>), giftcard(<<"N", " ", "L">>),
                     createDispatch(<<"N", " ", "L">>), editDispatch(<<"N", " ", "L">>),
                     deleteDispatch(<<"N", " ", "L">>), rmbpost(LongName)},
              login \in {TRUE, autoauth}}

Create ==
    /\ Len(reqs) < MaxRequests
    /\ \E r \in NewRequests : reqs' = Append(reqs, r)
    /\ UNCHANGED <<cred, autoauth, sends, requests, timers, microtasks, now, admitLog, fetchLog, votes, calls>>

\* history kept beside the request: the shards its caller has asked for so far, by the
\* documented meaning of the calls (shard replaces, addShards appends, requireShard and
\* the setters add what is absent)
Asked(r, op) ==
    LET add(l, x) == IF Includes(l, x) THEN l ELSE Append(l, x)
    IN  CASE op.name = "shard" ->
                IF r.type = "wa" /\ \E s \in WAVoteShards : Includes(op.shards, s)
                THEN add(r.asked, RESOLUTION_AT_VOTE) \o op.shards ELSE op.shards
          [] op.name = "addShards" -> r.asked \o op.shards
          [] op.name = "requireShard" -> add(r.asked, op.shards[1])
          [] op.name = "setTGFrom" ->
                IF Includes(r.asked, TG_CAMPAIGNABLE) THEN r.asked ELSE add(r.asked, TG_RECRUITABLE)
          [] op.name \in WorldSetters -> add(r.asked, ImpliedShard(op.name))
          [] OTHER -> r.asked

\* one builder call on a request object
Call(r, op) ==
    IF Throws(r, op)
    THEN [r EXCEPT !.ops = @ + 1, !.threw = TRUE, !.last = op.name, !.error = "TypeError"]
    ELSE [Apply(r, op) EXCEPT !.ops = @ + 1, !.threw = FALSE, !.asked = Asked(r, op),
                              !.last = op.name, !.error = ""]

\* the caller configures a request before sending it
Build ==
    /\ sends = <<>>
    /\ \E i \in 1..Len(reqs) :
         /\ Exists(reqs[i])
         /\ reqs[i].ops < MaxBuilderOps
         /\ \E op \in BuilderOps(reqs[i]) : reqs' = [reqs EXCEPT ![i] = Call(reqs[i], op)]
    /\ UNCHANGED <<cred, autoauth, sends, requests, timers, microtasks, now, admitLog, fetchLog, votes, calls>>

-----------------------------------------------------------------------------
(* Responses of the remote API *)

\* tags: the child tags of the root beside SUCCESS, each with the text of its first
\* occurrence
Raw(chars) ==
    [kind |-> "raw", raw |-> chars, root |-> "", text |-> <<>>, success |-> <<>>, tags |-> <<>>]
Xml(root, text, success) ==
    [kind |-> "xml", raw |-> <<>>, root |-> root, text |-> text, success |-> success,
     tags |-> <<>>]
\* a nation document with the given child tags
NationXml(tags) == [Xml("NATION", <<>>, <<>>) EXCEPT !.tags = tags]

Tokens == {<<"t", "1">>, <<"t", "2">>}
Bodies ==
    {Raw(<<>>), Raw(<<"1">>), Xml("ERROR", <<"b", "a", "d">>, <<>>),
     Xml("NATION", <<>>, <<>>), Xml("REGION", <<>>, <<>>)}
    \cup {Xml("NATION", <<>>, <<t>>) : t \in Tokens}

\* the answers of the verification endpoint, beside the XML documents
VerifyBodies == {Raw(<<"0">>), Raw(<<"1", " ">>)}
\* nation documents: the tags of the shards asked for, with or without further tags
NationBodies ==
    {NationXml([t \in {"NAME", "POPULATION"} |-> IF t = "NAME" THEN <<"N", " ">> ELSE <<"1", "0">>]),
     NationXml([t \in {"NAME", "POPULATION", "MOTTO", "VERIFY"} |->
                   CASE t = "NAME" -> <<"N", " ">>
                     [] t = "POPULATION" -> <<"1", "0">>
                     [] t = "MOTTO" -> <<"m">>
                     [] OTHER -> <<"1">>])}
\* region documents: the tags of the shards asked for, with or without further tags;
\* MESSAGES and OFFICERS hold one child element each
RegionBodies ==
    LET content(t) == CASE t = "DELEGATEVOTES" -> <<"1", "0">>
                        [] t = "DISPATCHES" -> <<"1", ",", "0">>
                        [] t = "MESSAGES" -> <<"p">>
                        [] t = "OFFICERS" -> <<"o">>
                        [] OTHER -> <<"N">>
        RegionXml(T) == [Xml("REGION", <<>>, <<>>) EXCEPT !.tags = [t \in T |-> content(t)]]
    IN  {RegionXml({"DELEGATEVOTES", "MESSAGES"}),
         RegionXml({"DELEGATEVOTES", "MESSAGES", "DISPATCHES", "OFFICERS", "NAME"})}
BodiesFor(r) ==
    Bodies \cup (IF r.type = "verify" THEN VerifyBodies ELSE {})
           \cup (IF r.type \in {"nation", "verify"} THEN NationBodies ELSE {})
           \cup (IF r.type = "region" THEN RegionBodies ELSE {})

Statuses == {200, 204, 403, 409, 500}
ok(status) == status >= 200 /\ status <= 299       \* Response.ok
NoHeaders == [auto |-> Undef, pin |-> Undef]
ResponseHeaders ==
    {NoHeaders, [auto |-> "a1", pin |-> Undef], [auto |-> Undef, pin |-> "p1"]}

\* mutant: the pin header is not read
\* mutant: the header values are stored as they come, also when a header is missing
fromHeadersAssigned(c, headers) == [c EXCEPT !.auto = headers.auto, !.pin = headers.pin]

fromHeadersAutoOnly(c, headers) ==
    [c EXCEPT !.auto = IF Truthy(headers.auto) THEN headers.auto ELSE c.auto]

\* NSCredential.fromHeaders
fromHeaders(c, headers) ==
    [c EXCEPT !.auto = IF Truthy(headers.auto) THEN headers.auto ELSE c.auto,
              !.pin = IF Truthy(headers.pin) THEN headers.pin ELSE c.pin]

-----------------------------------------------------------------------------
(* The rate limiter: NSAPI.#requests, NSAPI.#ratelimit, NSAPI.#complyWithLimit *)

\* this.#requests.amount and this.#requests.period: properties read off the ARRAY,
\* which has neither, so both are undefined (NaN in comparisons and arithmetic)
requestsAmount == NaN
requestsPeriod == NaN

\* the rate limiter's part of the state
Limiter == [requests |-> requests, timers |-> timers, microtasks |-> microtasks,
            admitLog |-> admitLog]

\* the wait computed at line 101-103
LimitDiff(L) ==
    IF JsGe(Num(Len(L.requests)), requestsAmount)
    THEN JsSub(JsIndex(L.requests, JsSub(Num(Len(L.requests)), requestsAmount)), Num(now))
    ELSE Num(0)

\* setTimeout(f, delay): a delay that is not a number counts as 0
TimerAt(delay) == IF delay.nan \/ delay.n < 0 THEN now ELSE now + delay.n

\* mutant: the continuation jumps the queue
EnqueueFirst(queue, id) == <<id>> \o queue

\* a continuation made ready: it runs after those already waiting
Enqueue(queue, id) == Append(queue, id)

\* #complyWithLimit up to its await, called for transport call id
complyWithLimit(L, id) ==
    LET diff == LimitDiff(L)
        expires == JsAdd(JsAdd(Num(now), diff), requestsPeriod)
        removal == [at |-> TimerAt(JsAdd(diff, Num(RatelimitPeriod))), kind |-> "remove",
                    expires |-> expires, id |-> id]
        resume == [at |-> TimerAt(diff), kind |-> "resume", expires |-> expires, id |-> id]
    IN  [requests |-> Append(L.requests, expires),
         timers |-> IF JsGt(diff, Num(0)) THEN L.timers \o <<removal, resume>>
                    ELSE Append(L.timers, removal),
         microtasks |-> IF JsGt(diff, Num(0)) THEN L.microtasks ELSE Enqueue(L.microtasks, id),
         admitLog |-> Append(L.admitLog, [id |-> id, t |-> now, wait |-> diff, expires |-> expires])]

-----------------------------------------------------------------------------
(* send() and NSAPI.sendRequest up to the first await *)

Pending == [cls |-> "pending", msg |-> <<>>]

\* a property of a decoded object: undefined, or a value
Absent == [def |-> FALSE, v |-> <<>>]
Present(x) == [def |-> TRUE, v |-> x]
\* the public fields of a Nation that the model follows, none of them assigned
NoObject ==
    [name |-> Absent, population |-> Absent, motto |-> Absent, dossier |-> Absent,
     verifySuccess |-> Absent]
\* the frame of one send() call: its position, its local variables (the headers built,
\* the body text received) and, as history, the transport calls it made
NewFrame(i) ==
    [req |-> i, pc |-> "start", phase |-> 1, hdr |-> [pwd |-> Undef, auto |-> Undef, pin |-> Undef],
     body |-> Raw(<<>>), log |-> <<>>, fetches |-> 0, result |-> Pending, value |-> NoObject]

\* history of one transport call: the mode and token sent, and what came back
NewCall(r) ==
    [mode |-> IF HasArg(r, "mode") THEN r.apiArgs["mode"] ELSE <<>>,
     token |-> IF HasArg(r, "token") THEN r.apiArgs["token"] ELSE <<>>,
     answered |-> FALSE, failed |-> FALSE, status |-> 0, rh |-> NoHeaders,
     body |-> Raw(<<>>), out |-> "pending"]

Reject(f, cls, msg) == [f EXCEPT !.pc = "rejected", !.result = [cls |-> cls, msg |-> msg]]
Resolve(f, cls, msg) == [f EXCEPT !.pc = "resolved", !.result = [cls |-> cls, msg |-> msg]]

\* the required arguments that NSRequest.send finds unset or empty, in declaration order
Missing(r) == SelectSeq(r.requiredArgs, LAMBDA a : ~ArgSet(r, a))

\* the private-shard scan of sendRequest, line 144
PrivateShardRequested(r) ==
    HasArg(r, "q") /\ \E s \in NationPrivateShard : Includes(getShards(r), s)

\* does sendRequest throw AuthenticationError (lines 137-147)
AuthFails(r) ==
    /\ r.type \in Nation \cup Command
    /\ ~r.loginCredentials
    /\ (r.type \in Nation => PrivateShardRequested(r))

\* mutant: only the password is sent
AuthHeadersPasswordOnly(r) ==
    IF r.type \in Nation \cup Command /\ r.loginCredentials
    THEN [pwd |-> IF Truthy(cred.pwd) THEN cred.pwd ELSE Undef, auto |-> Undef, pin |-> Undef]
    ELSE [pwd |-> Undef, auto |-> Undef, pin |-> Undef]

\* the authentication headers set at lines 140-142
AuthHeaders(r) ==
    IF r.type \in Nation \cup Command /\ r.loginCredentials
    THEN [pwd |-> IF Truthy(cred.pwd) THEN cred.pwd ELSE Undef,
          auto |-> IF Truthy(cred.auto) THEN cred.auto ELSE Undef,
          pin |-> IF Truthy(cred.pin) THEN cred.pin ELSE Undef]
    ELSE [pwd |-> Undef, auto |-> Undef, pin |-> Undef]

\* mutant: the admission is recorded before the credential is looked at
sendRequestAdmitFirst(f, r, L, id) ==
    IF AuthFails(r) THEN [f |-> Reject(f, "AuthenticationError", <<>>), L |-> complyWithLimit(L, id)]
    ELSE [f |-> [f EXCEPT !.pc = "limit", !.hdr = AuthHeaders(r),
                          !.log = Append(@, NewCall(r))],
          L |-> complyWithLimit(L, id)]

\* NSAPI.sendRequest(request) up to `await this.#complyWithLimit()`, for the send()
\* frame f with number id: the frame and the limiter state afterwards
sendRequest(f, r, L, id) ==
    IF AuthFails(r) THEN [f |-> Reject(f, "AuthenticationError", <<>>), L |-> L]
    ELSE [f |-> [f EXCEPT !.pc = "limit", !.hdr = AuthHeaders(r),
                          !.log = Append(@, NewCall(r))],
          L |-> complyWithLimit(L, id)]

\* NSRequest.send() up to its await
NSRequestSend(f, r, L, id) ==
    IF Len(Missing(r)) > 0 THEN [f |-> Reject(f, "MissingArgumentsError", Missing(r)), L |-> L]
    ELSE sendRequest(f, r, L, id)

\* the send() of each request class up to its first await: VerificationRequest.send and
\* UserAgentRequest.send call the transport themselves, the others go through super.send()
SendEntry(f, r, L, id) ==
    IF r.type \in {"verify", "ua"} THEN sendRequest(f, r, L, id)
    ELSE NSRequestSend(f, r, L, id)

SendBody(i) ==
    LET id == Len(sends) + 1
        S == SendEntry(NewFrame(i), reqs[i], Limiter, id)
    IN  /\ sends' = Append(sends, S.f)
        /\ requests' = S.L.requests
        /\ timers' = S.L.timers
        /\ microtasks' = S.L.microtasks
        /\ admitLog' = S.L.admitLog
        /\ UNCHANGED <<cred, autoauth, reqs, now, fetchLog, votes, calls>>

\* request.send() called by the user of the library
Send ==
    /\ Len(sends) < MaxSends
    /\ \E i \in 1..Len(reqs) : Exists(reqs[i]) /\ SendBody(i)

-----------------------------------------------------------------------------
(* The asynchronous part of sendRequest *)

\* the continuation after `await this.#complyWithLimit()`: fetch() is called (line 153)
RunMicrotask ==
    /\ microtasks # <<>>
    /\ LET id == Head(microtasks)
           f == sends[id]
       IN  /\ sends' = [sends EXCEPT ![id] = [f EXCEPT !.pc = "fetching", !.fetches = @ + 1]]
           /\ fetchLog' = Append(fetchLog, [id |-> id, t |-> now, phase |-> f.phase,
                                            hdr |-> f.hdr, mode |-> f.log[Len(f.log)].mode,
                                            token |-> f.log[Len(f.log)].token])
    /\ microtasks' = Tail(microtasks)
    /\ UNCHANGED <<cred, autoauth, reqs, requests, timers, now, admitLog, votes, calls>>

UnknownError == <<"An unknown error occurred while contacting the NS API!">>

\* mutant: the two authentication statuses are mixed up
StatusErrorSwapped(status) ==
    IF status = 409 THEN "InvalidCredentialsError"
    ELSE IF status = 403 THEN "RecentLoginError"
    ELSE "NSError"

\* the class of error thrown for a status that is not ok (lines 163-165)
StatusError(status) ==
    IF status = 403 THEN "InvalidCredentialsError"
    ELSE IF status = 409 THEN "RecentLoginError"
    ELSE "NSError"

\* the handlers given to fetch(...).then (lines 157-169) for transport call id;
\* failed: fetch() rejected; otherwise the response has status st, headers rh, body b
OnResponse(id, failed, st, rh, b) ==
    LET f == sends[id]
        r == reqs[f.req]
        n == Len(f.log)
        answer(out) == [f.log EXCEPT ![n] = [@ EXCEPT !.answered = TRUE, !.failed = failed,
                                                     !.status = st, !.rh = rh, !.body = b,
                                                     !.out = out]]
    IN  IF failed
        THEN /\ sends' = [sends EXCEPT ![id] =
                             [Reject(f, "NSError", UnknownError) EXCEPT !.log = answer("NSError")]]
             /\ cred' = cred
        ELSE IF ok(st)
        THEN /\ cred' = IF r.loginCredentials THEN fromHeaders(cred, rh) ELSE cred
             /\ sends' = [sends EXCEPT ![id] =
                             [f EXCEPT !.pc = "text", !.body = b, !.log = answer("text")]]
        ELSE /\ sends' = [sends EXCEPT ![id] =
                             [Reject(f, StatusError(st), <<>>) EXCEPT !.log = answer(StatusError(st))]]
             /\ cred' = cred

\* the remote API answers, or the network fails; a status without content carries none
HttpResponse ==
    /\ microtasks = <<>>
    /\ \E id \in 1..Len(sends) :
         /\ sends[id].pc = "fetching"
         /\ \/ OnResponse(id, TRUE, 0, NoHeaders, Raw(<<>>))
            \/ \E st \in Statuses : ~ok(st) /\ OnResponse(id, FALSE, st, NoHeaders, Raw(<<>>))
            \/ OnResponse(id, FALSE, 204, NoHeaders, Raw(<<>>))
            \/ \E rh \in ResponseHeaders, b \in BodiesFor(reqs[sends[id].req]) :
                  /\ (rh # NoHeaders => reqs[sends[id].req].loginCredentials)
                  /\ OnResponse(id, FALSE, 200, rh, b)
    /\ UNCHANGED <<autoauth, reqs, requests, timers, microtasks, now, admitLog, fetchLog, votes, calls>>

-----------------------------------------------------------------------------
(* send() after the transport returned the body text *)

\* xml?.['ERROR'] is truthy: the root is ERROR and its content is not the empty string
XmlError(b) == b.kind = "xml" /\ b.root = "ERROR" /\ Len(b.text) > 0

\* xml['ERROR'][0]: xml2js gives the root's content itself (a string for a text-only
\* element), so [0] indexes the string
ErrorMessage(b) == <<b.text[1]>>

\* let token = (await super.send())['SUCCESS']?.[0], on the NATION subtree (line 398)
TokenOf(b) == IF Len(b.success) > 0 THEN b.success[1] ELSE <<>>

\* mutant: the token is not tested
GrantedAlways(token) == TRUE

\* if(token), line 399
Granted(token) == Len(token) > 0

\* mutant: the token is not handed back
ExecuteArgsNoToken(r, token) == args(r, "mode", <<<<"execute">>>>)

\* this.args('mode', 'execute').args('token', token), lines 400-401
ExecuteArgs(r, token) == args(args(r, "mode", <<<<"execute">>>>), "token", <<token>>)

\* NSRequest.send after `await this.api.sendRequest(this)` (lines 108-112):
\* "xml" when the parsed tree is returned, otherwise the rejection
NSRequestParsed(f) ==
    IF f.body.kind = "raw" /\ Len(f.body.raw) = 0 THEN Reject(f, "NSError", UnknownError)
    ELSE IF f.body.kind = "raw" THEN Reject(f, "Error", <<"xml2js">>)
    ELSE IF XmlError(f.body) THEN Reject(f, "NSError", ErrorMessage(f.body))
    ELSE [f EXCEPT !.pc = "xml"]

ResponseClass(type) ==
    CASE type = "region" -> "Region"
      [] type = "world" -> "World"
      [] type = "wa" -> "WorldAssembly"
      [] OTHER -> "Nation"

\* txt(element, tag): the trimmed text of the tag, undefined without the tag
txt(res, tag) == IF tag \in DOMAIN res THEN Present(Trim(res[tag])) ELSE Absent

\* num(element, tag): the integer the text spells, undefined for anything else
\* (the pattern for decimals never matches a number: `\.d+`)
num(res, tag) ==
    LET ret == txt(res, tag)
    IN  IF ret.def /\ Len(ret.v) > 0 /\ (\A i \in 1..Len(ret.v) : ret.v[i] \in Digits)
        THEN Present(DecimalValue(ret.v)) ELSE Absent

\* Nation.constructor(req, res) for the shard list of req and the tags of the NATION
\* subtree (none when the subtree is undefined): the switch assigns the field of each
\* listed shard, and the last statement assigns #verified whatever the list
NationConstructor(shards, res) ==
    [name |-> IF Includes(shards, <<"name">>) THEN txt(res, "NAME") ELSE Absent,
     population |-> IF Includes(shards, <<"population">>) THEN num(res, "POPULATION") ELSE Absent,
     motto |-> IF Includes(shards, <<"motto">>) THEN txt(res, "MOTTO") ELSE Absent,
     dossier |-> Absent,
     verifySuccess |-> Present(num(res, "VERIFY").def /\ num(res, "VERIFY").v = 1)]

\* Region.constructor(req, res) for the shard list of req and the tags of the REGION
\* subtree: the switch runs the case of each listed shard; the cases of 'delegatevotes'
\* and 'messages' end without a break and run on into those of 'dispatches' and
\* 'officers'
RegionConstructor(shards, res) ==
    LET case(s) == Includes(shards, <<s>>)
        list(tag) == IF tag \in DOMAIN res THEN Present(res[tag]) ELSE Absent
    IN  [name |-> IF case("name") THEN txt(res, "NAME") ELSE Absent,
         delegatevotes |-> IF case("delegatevotes") THEN num(res, "DELEGATEVOTES") ELSE Absent,
         dispatches |-> IF case("dispatches") \/ case("delegatevotes")
                        THEN (IF txt(res, "DISPATCHES").def
                              THEN Present(Split(txt(res, "DISPATCHES").v, ","))
                              ELSE Absent)
                        ELSE Absent,
         messages |-> IF case("messages") THEN list("MESSAGES") ELSE Absent,
         officers |-> IF case("officers") \/ case("messages") THEN list("OFFICERS") ELSE Absent]

\* the decoders iterate req.getShards(): not iterable when q is unset; the nation
\* decoder reads res['DOSSIER'] of the subtree for the dossier shard
Decoded(f, r) ==
    IF ~HasArg(r, "q") THEN Reject(f, "TypeError", <<>>)
    ELSE IF r.type \in Nation /\ f.body.root # "NATION" /\ Includes(getShards(r), <<"dossier">>)
    THEN Reject(f, "TypeError", <<>>)
    ELSE IF r.type \in Nation
    THEN [Resolve(f, ResponseClass(r.type), <<>>) EXCEPT
            !.value = NationConstructor(getShards(r),
                                        IF f.body.root = "NATION" THEN f.body.tags ELSE <<>>)]
    ELSE IF r.type = "region" /\ f.body.root # "REGION"
            /\ (Includes(getShards(r), <<"messages">>) \/ Includes(getShards(r), <<"officers">>))
    THEN Reject(f, "TypeError", <<>>)   \* res['MESSAGES'] of an undefined subtree
    ELSE IF r.type = "region"
    THEN [Resolve(f, ResponseClass(r.type), <<>>) EXCEPT
            !.value = RegionConstructor(getShards(r),
                                        IF f.body.root = "REGION" THEN f.body.tags ELSE <<>>)]
    ELSE Resolve(f, ResponseClass(r.type), <<>>)

\* the rest of send() of each request class once the body text is there, for the
\* frame f (number id) of request r: the frame, the request and the limiter afterwards
Continue(f, r, L, id) ==
    LET p == NSRequestParsed(f)
        keep(g) == [f |-> g, r |-> r, L |-> L]
    IN  CASE r.type = "ua" -> keep(Resolve(f, "string", <<"[object Undefined]">>))
          [] r.type = "verify" ->
                \* res == 1, res == 0 on the trimmed text, else the parser and the nation
                \* decoder; the text of an XML document is no number
                IF f.body.kind = "raw" /\ LooseEq(Trim(f.body.raw), 1) THEN keep(Resolve(f, "true", <<>>))
                ELSE IF f.body.kind = "raw" /\ LooseEq(Trim(f.body.raw), 0) THEN keep(Resolve(f, "false", <<>>))
                ELSE IF f.body.kind = "raw" THEN keep(Reject(f, "Error", <<"xml2js">>))
                ELSE keep(Decoded(f, r))
          [] p.pc # "xml" -> keep(p)
          [] r.type = "nation" ->
                \* new Responses.Nation((this, xml)['NATION']): the request is dropped by
                \* the comma operator, the decoder calls getShards() on the subtree
                keep(Reject(f, "TypeError", <<>>))
          [] r.type \in {"region", "world", "wa"} -> keep(Decoded(f, r))
          [] f.body.root # "NATION" ->
                \* commands: xml['NATION'] is undefined and is indexed next
                keep(Reject(f, "TypeError", <<>>))
          [] r.type = "issue" -> keep(Resolve(f, "AnsweredIssue", <<>>))
          [] f.phase = 1 ->
                \* TwoStepCommand.send lines 398-403
                IF Granted(TokenOf(f.body))
                THEN LET r2 == ExecuteArgs(r, TokenOf(f.body))
                         S == NSRequestSend([f EXCEPT !.phase = 2], r2, L, id)
                     IN  [f |-> S.f, r |-> r2, L |-> S.L]
                ELSE keep(Reject(f, "NSError", <<"No execution token was returned, something must have gone wrong!">>))
          [] OTHER ->
                keep(Resolve(f, "value", TokenOf(f.body)))

\* r.text() resolves and the send() chain runs on to its next await or to its end
Deliver ==
    /\ microtasks = <<>>
    /\ \E id \in 1..Len(sends) :
         /\ sends[id].pc = "text"
         /\ LET S == Continue(sends[id], reqs[sends[id].req], Limiter, id)
            IN  /\ sends' = [sends EXCEPT ![id] = S.f]
                /\ reqs' = [reqs EXCEPT ![sends[id].req] = S.r]
                /\ requests' = S.L.requests
                /\ timers' = S.L.timers
                /\ microtasks' = S.L.microtasks
                /\ admitLog' = S.L.admitLog
    /\ UNCHANGED <<cred, autoauth, now, fetchLog, votes, calls>>

-----------------------------------------------------------------------------
(* Timers and the clock *)

Due(i) == timers[i].at <= now
\* the timer that fires next: the earliest deadline, the earliest set among equals
NextTimer(i) ==
    /\ Due(i)
    /\ \A j \in 1..Len(timers) : timers[j].at > timers[i].at \/ (timers[j].at = timers[i].at /\ j >= i)

\* a setTimeout callback of #complyWithLimit runs: the slot removal of line 107,
\* or the resolve of the wait of line 110
FireTimer ==
    /\ microtasks = <<>>
    /\ \E i \in 1..Len(timers) :
         /\ NextTimer(i)
         /\ timers' = SubSeq(timers, 1, i - 1) \o SubSeq(timers, i + 1, Len(timers))
         /\ IF timers[i].kind = "remove"
            THEN /\ requests' = JsSplice1(requests, JsIndexOf(requests, timers[i].expires))
                 /\ microtasks' = microtasks
            ELSE /\ requests' = requests
                 /\ microtasks' = Enqueue(microtasks, timers[i].id)
    /\ UNCHANGED <<cred, autoauth, reqs, sends, now, admitLog, fetchLog, votes, calls>>

\* time passes between two tasks of the event loop
Tick ==
    /\ microtasks = <<>>
    /\ \A i \in 1..Len(timers) : ~Due(i)
    /\ now < MaxTicks * TickMs
    /\ now' = now + TickMs
    /\ UNCHANGED <<cred, autoauth, reqs, sends, requests, timers, microtasks, admitLog, fetchLog, votes, calls>>

-----------------------------------------------------------------------------
(* Specifications *)

\* NSAPI.createCredentials(password, autologin)
createCredentials(password, autologin) == [pwd |-> password, auto |-> autologin, pin |-> Undef]

Op(name, shards) == [name |-> name, shards |-> shards]
Name == <<"N", " ", "L">>

\* request objects configured and ready to be sent, one or two of each class
ReadyRequests ==
    {ua,
     Call(region(Name), Op("shard", <<<<"name">>>>)),
     Call(region(Name), Op("shard", <<<<"delegatevotes">>, <<"messages">>>>)),
     Call(world, Op("shard", <<<<"name">>>>)),
     Call(wa(<<"1">>), Op("shard", <<<<"numnations">>>>)),
     Call(nation(Name), Op("shard", <<<<"name">>>>)),
     Call(Call(nation(Name), Op("shard", <<<<"name">>, <<"dossier">>>>)), Op("authenticate", <<>>)),
     Call(verify(Name, <<"c", "s">>), Op("shard", <<<<"name">>>>)),
     Call(verify(Name, <<"c", "s">>), Op("shard", <<<<"name">>, <<"population">>>>)),
     Call(issue(Name), Op("select", <<>>)),
     createDispatch(Name)}

\* the send() chains: a request that is ready is sent, also concurrently, and the
\* remote API answers; all within one instant of the clock
Init ==
    /\ cred \in {createCredentials("pw", a) : a \in {Undef, "a0"}}
    /\ autoauth = FALSE
    /\ reqs \in {<<r>> : r \in ReadyRequests}
    /\ sends = <<>>
    /\ requests = <<>>
    /\ timers = <<>>
    /\ microtasks = <<>>
    /\ now = 0
    /\ admitLog = <<>>
    /\ fetchLog = <<>>
    /\ votes = NoVotes
    /\ calls = <<>>

Next ==
    \/ Send
    \/ RunMicrotask
    \/ HttpResponse
    \/ Deliver

Spec == Init /\ [][Next]_vars

\* the rate limiter over time: sends of a public request and of a private one without
\* credential, the timers and the clock
InitClock ==
    /\ cred = createCredentials("pw", "a0")
    /\ autoauth = FALSE
    /\ reqs = <<Call(region(Name), Op("shard", <<<<"name">>>>)),
                Call(nation(Name), Op("shard", <<<<"dossier">>>>))>>
    /\ sends = <<>>
    /\ requests = <<>>
    /\ timers = <<>>
    /\ microtasks = <<>>
    /\ now = 0
    /\ admitLog = <<>>
    /\ fetchLog = <<>>
    /\ votes = NoVotes
    /\ calls = <<>>

NextClock ==
    \/ Send
    \/ RunMicrotask
    \/ HttpResponse
    \/ Deliver
    \/ FireTimer
    \/ Tick

SpecClock == InitClock /\ [][NextClock]_vars

\* the builders: requests are created, configured and sent, up to the HTTP call
InitBuild ==
    /\ cred = createCredentials("pw", Undef)
    /\ autoauth = FALSE
    /\ reqs = <<>>
    /\ sends = <<>>
    /\ requests = <<>>
    /\ timers = <<>>
    /\ microtasks = <<>>
    /\ now = 0
    /\ admitLog = <<>>
    /\ fetchLog = <<>>
    /\ votes = NoVotes
    /\ calls = <<>>

NextBuild ==
    \/ SetPermanentAuthentication
    \/ Create
    \/ Build
    \/ Send
    \/ RunMicrotask

SpecBuild == InitBuild /\ [][NextBuild]_vars

\* a burst of sendRequest calls on an idle client, all at the same instant
InitBurst ==
    /\ cred = createCredentials("pw", Undef)
    /\ autoauth = FALSE
    /\ reqs = <<Call(region(Name), Op("shard", <<<<"name">>>>))>>
    /\ sends = <<>>
    /\ requests = <<>>
    /\ timers = <<>>
    /\ microtasks = <<>>
    /\ now = 0
    /\ admitLog = <<>>
    /\ fetchLog = <<>>
    /\ votes = NoVotes
    /\ calls = <<>>

BurstSend ==
    /\ Len(sends) < BurstCalls
    /\ SendBody(1)

NextBurst == BurstSend \/ RunMicrotask

SpecBurst == InitBurst /\ [][NextBurst]_vars

-----------------------------------------------------------------------------
(* The Debate of the bot: the cached ballots and the statements sent to the database *)

\* utils.unifyNID(nid): nid.toLowerCase().replace(/ /g, '_')
unifyNID(nid) ==
    [i \in 1..Len(nid) |-> IF LowerChar(nid[i]) = " " THEN "_" ELSE LowerChar(nid[i])]

\* the rows of the vote table for one debate: at most one row per nation (the key of
\* the upsert of countVote), the nation as countVote stored it, any stance stored
VoteRows ==
    LET V1 == <<"n", "_", "l">>
        V2 == <<"b">>
        NoRow == 9
        rows(m) == SelectSeq(<<[Voter |-> V1, Ballot |-> m[1]], [Voter |-> V2, Ballot |-> m[2]]>>,
                             LAMBDA row : row.Ballot # NoRow)
    IN  {rows(m) : m \in [1..2 -> {FOR, AGAINST, ABSTAIN, 5, NoRow}]}

\* Debate.retrieveBallots() for the rows the query returns
retrieveBallots(ballots) ==
    LET voters(stance) == LET sel == SelectSeq(ballots, LAMBDA row : row.Ballot = stance)
                          IN  [i \in 1..Len(sel) |-> sel[i].Voter]
    IN  [f |-> voters(FOR), a |-> voters(AGAINST), x |-> voters(ABSTAIN)]

\* the loop of countVote and discountVote over Object.keys(this.ballots): the first
\* list that includes the voter loses the first occurrence, then break
RemoveBallot(v, voter) ==
    LET splice(l) == LET i == CHOOSE k \in 1..Len(l) :
                                  l[k] = voter /\ \A m \in 1..(k - 1) : l[m] # voter
                     IN  SubSeq(l, 1, i - 1) \o SubSeq(l, i + 1, Len(l))
    IN  IF Includes(v.f, voter) THEN [v EXCEPT !.f = splice(@)]
        ELSE IF Includes(v.a, voter) THEN [v EXCEPT !.a = splice(@)]
        ELSE IF Includes(v.x, voter) THEN [v EXCEPT !.x = splice(@)]
        ELSE v

\* mutant: the ballot cast before is not removed
countVoteAppend(v, voter, stance) ==
    IF voter.type # "string" \/ stance.type # "number" THEN [votes |-> v, statement |-> "none"]
    ELSE LET key == IF stance.n = FOR THEN "f" ELSE IF stance.n = AGAINST THEN "a" ELSE "x"
         IN  [votes |-> [v EXCEPT ![key] = Append(@, unifyNID(voter.s))],
              statement |-> "upsert"]

\* Debate.countVote(voter, stance) on the cached ballots v: the ballots afterwards and
\* the database statement issued
countVote(v, voter, stance) ==
    IF voter.type # "string" \/ stance.type # "number" THEN [votes |-> v, statement |-> "none"]
    ELSE LET n == unifyNID(voter.s)
             key == IF stance.n = FOR THEN "f" ELSE IF stance.n = AGAINST THEN "a" ELSE "x"
         IN  [votes |-> [RemoveBallot(v, n) EXCEPT ![key] = Append(@, n)],
              statement |-> "upsert"]

\* Debate.discountVote(voter)
discountVote(v, voter) ==
    IF voter.type # "string" THEN [votes |-> v, statement |-> "none"]
    ELSE LET n == unifyNID(voter.s)
             removed == Includes(v.f, n) \/ Includes(v.a, n) \/ Includes(v.x, n)
         IN  [votes |-> RemoveBallot(v, n),
              statement |-> IF removed THEN "delete" ELSE "none"]

\* the arguments of the calls: names as users write them and a value that is no string;
\* stances as numbers and a value that is no number
VoterInputs ==
    [type : {"string"}, s : {<<"N", " ", "L">>, <<"n", "_", "l">>, <<"b">>}]
    \cup {[type |-> "undefined", s |-> <<>>]}
StanceInputs == [type : {"number"}, n : {FOR, AGAINST, ABSTAIN, 5}] \cup {[type |-> "string", n |-> 0]}

CountVote ==
    /\ Len(calls) < MaxCalls
    /\ \E voter \in VoterInputs, stance \in StanceInputs :
          LET o == countVote(votes, voter, stance)
          IN  /\ votes' = o.votes
              /\ calls' = Append(calls, [op |-> "countVote", voter |-> voter, stance |-> stance,
                                          statement |-> o.statement])
    /\ UNCHANGED <<cred, autoauth, reqs, sends, requests, timers, microtasks, now, admitLog,
                   fetchLog>>

DiscountVote ==
    /\ Len(calls) < MaxCalls
    /\ \E voter \in VoterInputs :
          LET o == discountVote(votes, voter)
          IN  /\ votes' = o.votes
              /\ calls' = Append(calls, [op |-> "discountVote", voter |-> voter,
                                          stance |-> [type |-> "undefined", n |-> 0],
                                          statement |-> o.statement])
    /\ UNCHANGED <<cred, autoauth, reqs, sends, requests, timers, microtasks, now, admitLog,
                   fetchLog>>

\* a Debate loaded from the database (Debate.load calls retrieveBallots), then votes
\* are counted and discounted
InitDebate ==
    /\ cred = createCredentials("pw", Undef)
    /\ autoauth = FALSE
    /\ reqs = <<>>
    /\ sends = <<>>
    /\ requests = <<>>
    /\ timers = <<>>
    /\ microtasks = <<>>
    /\ now = 0
    /\ admitLog = <<>>
    /\ fetchLog = <<>>
    /\ votes \in {retrieveBallots(rows) : rows \in VoteRows}
    /\ calls = <<>>

NextDebate == CountVote \/ DiscountVote

SpecDebate == InitDebate /\ [][NextDebate]_vars

-----------------------------------------------------------------------------
(* Properties *)

Frames == 1..Len(sends)
Settled(f) == f.pc \in {"resolved", "rejected"}
LastCall(f) == f.log[Len(f.log)]

\* C1: the rate limiter lets at most 49 requests proceed to the HTTP call within any
\* trailing window of 30000 ms.
C1_QuotaPerWindow ==
    \A i \in 1..Len(fetchLog) :
        Cardinality({j \in 1..Len(fetchLog) :
                        /\ fetchLog[j].t > fetchLog[i].t - RatelimitPeriod
                        /\ fetchLog[j].t <= fetchLog[i].t}) <= RatelimitAmount

\* C2: of 50 admission requests issued at the same instant on an idle client, the first
\* 49 proceed with zero wait, the 50th does not proceed to its HTTP call until the first
\* admission's slot has aged 30000 ms, and the expiry recorded for each admission is
\* now + wait + 30000.
C2_BurstOfFifty ==
    /\ \A k \in 1..Len(admitLog) : k <= RatelimitAmount => admitLog[k].wait = Num(0)
    /\ \A j \in 1..Len(fetchLog) :
          fetchLog[j].id > RatelimitAmount => fetchLog[j].t >= admitLog[1].t + RatelimitPeriod
    /\ \A k \in 1..Len(admitLog) :
          admitLog[k].expires
            = JsAdd(JsAdd(Num(admitLog[k].t), admitLog[k].wait), Num(RatelimitPeriod))

\* C3: admission is FIFO: the transport calls proceed to their HTTP calls in the order
\* in which they reached the rate limiter.
C3_FifoAdmission ==
    \A k \in 1..Len(fetchLog) : k <= Len(admitLog) /\ fetchLog[k].id = admitLog[k].id

\* the first call to reach the limiter has proceeded to its HTTP call and the second,
\* which reached it at the same instant, is waiting behind it
C3_Witness ==
    /\ Len(admitLog) >= 2 /\ Len(fetchLog) = 1 /\ microtasks # <<>>
    /\ fetchLog[1].id = admitLog[1].id
    /\ Head(microtasks) = admitLog[2].id
    /\ admitLog[2].t = fetchLog[1].t

\* C4: a send() of a request with declared-required arguments unset or empty fails with
\* MissingArgumentsError naming exactly the missing arguments, and performs no transport
\* call: no rate-limit admission and no HTTP call.
C4_MissingArgumentsRejected ==
    \A id \in Frames :
        LET f == sends[id]
            r == reqs[f.req]
        IN  Len(Missing(r)) > 0 =>
                /\ f.pc = "rejected"
                /\ f.result = [cls |-> "MissingArgumentsError", msg |-> Missing(r)]
                /\ f.log = <<>>
                /\ f.fetches = 0

\* the response to a transport call carries an execution token
HasToken(e) ==
    /\ e.answered /\ ~e.failed /\ ok(e.status)
    /\ e.body.kind = "xml" /\ e.body.root = "NATION"
    /\ Len(e.body.success) > 0 /\ Len(e.body.success[1]) > 0

\* the first transport call of the send() was the prepare call of a two-step command
Prepared(f) ==
    reqs[f.req].type \in TwoStep /\ Len(f.log) >= 1 /\ f.log[1].mode = <<"prepare">>

\* C5: when the prepare response contains a token, one send() performs exactly two
\* transport sends, prepare and then execute with the literal token of the prepare
\* response, and no further one, also when the execute send fails.
C5_TwoStepExecutes ==
    \A id \in Frames :
        LET f == sends[id]
        IN  (Prepared(f) /\ HasToken(f.log[1]) /\ ~(Len(f.log) = 1 /\ f.pc = "text")) =>
                /\ Len(f.log) = 2
                /\ f.log[2].mode = <<"execute">>
                /\ f.log[2].token = f.log[1].body.success[1]
                /\ f.fetches <= 2
                /\ (Settled(f) /\ f.log[2].answered => f.fetches = 2)

\* an execute send failed with a status, and the send() ended there, after two sends
C5_Witness ==
    \E id \in Frames :
        LET f == sends[id]
        IN  /\ Prepared(f) /\ HasToken(f.log[1])
            /\ Len(f.log) = 2 /\ f.log[2].answered /\ f.log[2].status = 500
            /\ f.log[2].token = <<"t", "2">>
            /\ f.pc = "rejected" /\ f.fetches = 2

\* C6: when the prepare response contains no token, or the prepare send fails, send()
\* fails with an error and issues no send with mode=execute.
C6_NoTokenNoExecute ==
    \A id \in Frames :
        LET f == sends[id]
        IN  (Prepared(f) /\ f.log[1].answered /\ ~HasToken(f.log[1]) /\ f.pc # "text") =>
                /\ f.pc = "rejected"
                /\ Len(f.log) = 1
                /\ f.fetches = 1

\* a prepare call was answered with success but without a token, and the send() failed
C6_Witness ==
    \E id \in Frames :
        LET f == sends[id]
        IN  /\ Prepared(f) /\ f.log[1].answered /\ f.log[1].status = 200
            /\ f.log[1].body = Xml("NATION", <<>>, <<>>)
            /\ f.pc = "rejected" /\ Len(f.log) = 1

\* C7: a nation request without a credential whose requested shards include a private
\* shard fails in sendRequest with AuthenticationError, before any rate-limit admission
\* and before any HTTP call.
C7_PrivateShardNeedsCredential ==
    \A id \in Frames :
        LET f == sends[id]
            r == reqs[f.req]
        IN  (/\ r.type \in Nation
             /\ (r.type = "verify" \/ Len(Missing(r)) = 0)
             /\ ~r.loginCredentials
             /\ \E s \in NationPrivateShard : Includes(r.asked, s)) =>
                /\ f.pc = "rejected"
                /\ f.result.cls = "AuthenticationError"
                /\ f.log = <<>>
                /\ f.fetches = 0

\* C8: sendRequest returns the raw body text for a success status, and fails with
\* InvalidCredentialsError for 403, RecentLoginError for 409 and a generic NSError for
\* every other status.
C8_StatusClassification ==
    \A id \in Frames :
        LET f == sends[id]
        IN  \A k \in 1..Len(f.log) :
                LET e == f.log[k]
                    want == IF e.status = 403 THEN "InvalidCredentialsError"
                            ELSE IF e.status = 409 THEN "RecentLoginError"
                            ELSE "NSError"
                IN  (e.answered /\ ~e.failed) =>
                        IF e.status >= 200 /\ e.status <= 299
                        THEN /\ e.out = "text"
                             /\ (k = Len(f.log) /\ f.pc = "text" => f.body = e.body)
                        ELSE /\ e.out = want
                             /\ k = Len(f.log)
                             /\ f.pc = "rejected"
                             /\ f.result.cls = want

\* one call was answered 409 and failed, another got its body text from a 200
C8_Witness ==
    \E a, b \in Frames :
        /\ LastCall(sends[a]).answered /\ LastCall(sends[a]).status = 409
        /\ sends[a].result.cls = "RecentLoginError"
        /\ LastCall(sends[b]).answered /\ LastCall(sends[b]).status = 200
        /\ sends[b].pc = "text" /\ sends[b].body = Xml("NATION", <<>>, <<>>)

\* C9: when the HTTP call succeeds and the root of the parsed body is an ERROR tag,
\* send() fails with an NSError whose message is the full text of that tag, and
\* returns no response object.
C9_ErrorRootFails ==
    \A id \in Frames :
        LET f == sends[id]
        IN  (/\ Settled(f) /\ Len(f.log) >= 1
             /\ LastCall(f).out = "text"
             /\ LastCall(f).body.kind = "xml" /\ LastCall(f).body.root = "ERROR") =>
                /\ f.pc = "rejected"
                /\ f.result = [cls |-> "NSError", msg |-> LastCall(f).body.text]

\* C10: on a success response to a request that carries a credential, the credential's
\* autologin and pin are set from the X-autologin and X-pin headers in the step that
\* handles the response, before the body text is delivered; the delivery changes nothing.
C10_RefreshBeforeDelivery ==
    [][\A id \in Frames :
          /\ (/\ sends[id].pc = "fetching" /\ sends'[id].pc = "text"
              /\ reqs[sends[id].req].loginCredentials) =>
                 LET rh == LastCall(sends'[id]).rh
                 IN  /\ cred'.auto = IF rh.auto # Undef THEN rh.auto ELSE cred.auto
                     /\ cred'.pin = IF rh.pin # Undef THEN rh.pin ELSE cred.pin
          /\ (sends[id].pc = "text" /\ sends'[id].pc # "text") => cred' = cred]_vars

\* a body text is about to be delivered and the credential already holds the pin of
\* the response's header
C10_Witness ==
    \E id \in Frames :
        /\ sends[id].pc = "text" /\ reqs[sends[id].req].loginCredentials
        /\ LastCall(sends[id]).rh.pin = "p1" /\ cred.pin = "p1"

\* C11: VerificationRequest.send() returns true when the raw body is exactly '1', false
\* when it is exactly '0', and for any other body, an empty one included, does not
\* answer with a boolean but parses the body as a nation document and returns the
\* decoded Nation.
C11_VerificationResult ==
    \A id \in Frames :
        LET f == sends[id]
            b == LastCall(f).body
        IN  (reqs[f.req].type = "verify" /\ Settled(f) /\ Len(f.log) = 1 /\ LastCall(f).out = "text") =>
                IF b = Raw(<<"1">>) THEN f.pc = "resolved" /\ f.result.cls = "true"
                ELSE IF b = Raw(<<"0">>) THEN f.pc = "resolved" /\ f.result.cls = "false"
                ELSE /\ f.result.cls \notin {"true", "false"}
                     /\ (b.kind = "xml" /\ b.root = "NATION" =>
                            f.pc = "resolved" /\ f.result.cls = "Nation")

\* C12: for a nation request with a non-empty shard list whose transport call succeeds
\* with a body that has a NATION root, NationRequest.send() resolves to a Nation decoded
\* from the request and the NATION subtree: the field of a requested shard whose tag is
\* in the body is populated.
C12_NationDecoded ==
    \A id \in Frames :
        LET f == sends[id]
            r == reqs[f.req]
            b == LastCall(f).body
        IN  (/\ r.type = "nation" /\ ArgSet(r, "q")
             /\ Settled(f) /\ LastCall(f).out = "text"
             /\ b.kind = "xml" /\ b.root = "NATION") =>
                /\ f.pc = "resolved"
                /\ f.result.cls = "Nation"
                /\ (Includes(getShards(r), <<"name">>) /\ "NAME" \in DOMAIN b.tags =>
                        f.value.name.def)

\* a Nation was decoded for a request with the shard list name, population from a body
\* that holds both tags
DecodedNamePopulation(f) ==
    /\ reqs[f.req].type \in Nation /\ ArgSet(reqs[f.req], "q")
    /\ getShards(reqs[f.req]) = <<<<"name">>, <<"population">>>>
    /\ f.pc = "resolved" /\ f.result.cls = "Nation"
    /\ {"NAME", "POPULATION"} \subseteq DOMAIN LastCall(f).body.tags

\* C13: a Nation decoded for a request whose shard list is exactly name, population has
\* name and population populated and every other public field, verifySuccess included,
\* undefined, whatever other tags the body contains.
C13_FieldGating ==
    \A id \in Frames :
        LET f == sends[id]
        IN  DecodedNamePopulation(f) =>
                /\ f.value.name.def /\ f.value.population.def
                /\ ~f.value.motto.def /\ ~f.value.dossier.def
                /\ ~f.value.verifySuccess.def

\* C14: on a shardable request, shard(...names) replaces the shard list with the given
\* names, addShards(...names) yields the previous list followed by the new names, and
\* requireShard(name) appends name only if it is absent; after each of these getShards()
\* returns every shard as a separate element, the shards present before still present.
C14_ShardListOperations ==
    \A i \in 1..Len(reqs) :
        LET r == reqs[i]
        IN  (r.type \in Shardable \ {"wa"} /\ HasArg(r, "q")) => getShards(r) = r.asked

\* C15: after a convenience setter that implies a shard is called on a request in any
\* prior shard state, a freshly built request included, the call has completed without
\* error and getShards() contains the implied shard.
C15_SetterImpliesShard ==
    \A i \in 1..Len(reqs) :
        LET r == reqs[i]
        IN  r.last \in WorldSetters =>
                /\ ~r.threw
                /\ HasArg(r, "q")
                /\ Includes(getShards(r), ImpliedShard(r.last))

\* C16: constructing a command request (issue, giftcard, dispatch add/edit/remove, RMB
\* post) without a credential, neither passed nor set as the default of the client,
\* fails with AuthenticationError: no command request without a credential exists, and
\* none is ever sent.
C16_CommandNeedsCredential ==
    /\ \A i \in 1..Len(reqs) :
          (reqs[i].type \in Command /\ ~reqs[i].loginCredentials) =>
              /\ ~Exists(reqs[i])
              /\ reqs[i].error = "AuthenticationError"
    /\ \A id \in Frames :
          reqs[sends[id].req].type \in Command =>
              Exists(reqs[sends[id].req]) /\ reqs[sends[id].req].loginCredentials

\* a giftcard command was asked for on a client without default credential and without
\* passing one: the construction failed
C16_Witness ==
    /\ ~autoauth
    /\ \E i \in 1..Len(reqs) :
          /\ reqs[i].type = "giftcard" /\ ~Exists(reqs[i])
          /\ reqs[i].error = "AuthenticationError"

\* C17: the answer-issue command follows the two-step protocol: its send() first issues
\* a send with mode=prepare and, when a token is returned, a second send with
\* mode=execute and that token.
C17_IssueIsTwoStep ==
    \A id \in Frames :
        LET f == sends[id]
        IN  (reqs[f.req].type = "issue" /\ Len(f.log) >= 1) =>
                /\ f.log[1].mode = <<"prepare">>
                /\ (HasToken(f.log[1]) /\ Settled(f) =>
                        /\ Len(f.log) = 2
                        /\ f.log[2].mode = <<"execute">>
                        /\ f.log[2].token = f.log[1].body.success[1])

\* the wire identifier of the names the requests are built from, case by case
WireIdentifier(name) ==
    CASE name = <<"N", " ", "L">> -> <<"n", "_", "l">>
      [] name = <<"N", " ", "L", " ", "a">> -> <<"n", "_", "l", "_", "a">>

\* C18: for every nation or region name given to a nation, region, verification or
\* command request constructor, and every author name given to setDispatchAuthor, the
\* stored wire identifier is the input lower-cased with every space replaced by an
\* underscore.
C18_NameNormalised ==
    \A i \in 1..Len(reqs) :
        LET r == reqs[i]
        IN  /\ (r.type \in Nation \cup Command /\ r.given # NoName) =>
                    r.apiArgs["nation"] = WireIdentifier(r.given)
            /\ (r.type = "region" /\ r.given # NoName) =>
                    r.apiArgs["region"] = WireIdentifier(r.given)
            /\ HasArg(r, "dispatchauthor") =>
                    r.apiArgs["dispatchauthor"] = WireIdentifier(LongName)

\* a name with two spaces was given to a region request and to an RMB post command,
\* or an author name with two spaces to a world request
C18_Witness ==
    \E i \in 1..Len(reqs) :
        \/ /\ reqs[i].type \in {"region", "rmbpost"} /\ reqs[i].given = LongName
           /\ reqs[i].apiArgs[IF reqs[i].type = "region" THEN "region" ELSE "nation"]
                 = <<"n", "_", "l", "_", "a">>
        \/ /\ HasArg(reqs[i], "dispatchauthor")
           /\ reqs[i].apiArgs["dispatchauthor"] = <<"n", "_", "l", "_", "a">>

\* the removal timers of the rate limiter that have not fired yet
PendingRemovals == {i \in 1..Len(timers) : timers[i].kind = "remove"}

\* C19: each admission schedules the removal of a slot after wait + 30000 ms; at every
\* moment the tracked-slot list is as long as the number of admissions whose removal
\* timer has not fired yet, so that it is empty once all scheduled removals have fired.
C19_SlotsRemoved ==
    /\ Len(requests) = Cardinality(PendingRemovals)
    /\ (timers = <<>> => requests = <<>>)
    /\ \A k \in 1..Len(admitLog) :
          LET due == JsAdd(JsAdd(Num(admitLog[k].t), admitLog[k].wait), Num(RatelimitPeriod))
          IN  /\ ~due.nan
              /\ \/ now >= due.n
                 \/ \E i \in PendingRemovals : timers[i].id = admitLog[k].id /\ timers[i].at = due.n

\* two admissions at different times: the removal of the first has fired, that of the
\* second has not, and one slot is tracked
C19_Witness ==
    /\ Len(admitLog) = 2 /\ admitLog[2].t > admitLog[1].t
    /\ Len(timers) = 1 /\ timers[1].id = admitLog[2].id
    /\ Len(requests) = 1

\* the last builder call on r was WARequest.shard with a vote-detail shard among its
\* names: the call that throws on a wa request is of this kind, and one that completed
\* has left its names at the end of the history
VoteShardCall(r) ==
    /\ r.type = "wa" /\ r.last = "shard"
    /\ (r.threw \/ \E s \in WAVoteShards : Includes(r.asked, s))

\* C20: after WARequest.shard(...names) is called with a list that includes any of
\* voters, votetrack, dellog or delvotes, the call has completed without error and
\* getShards() contains 'resolution' together with every requested name, each as a
\* separate element.
C20_VoteShardsImplyResolution ==
    \A i \in 1..Len(reqs) :
        LET r == reqs[i]
        IN  VoteShardCall(r) =>
                /\ ~r.threw
                /\ HasArg(r, "q")
                /\ Includes(getShards(r), RESOLUTION_AT_VOTE)
                /\ Includes(getShards(r), <<"voters">>)
                /\ Includes(getShards(r), <<"numnations">>)

\* C21: setCensusHistoryWindow(from, to) on a census-capable request (nation, region,
\* world) completes without error and leaves the request with the arguments
\* mode = 'history', from and to, replacing any census mode selected before.
C21_CensusHistoryWindow ==
    \A i \in 1..Len(reqs) :
        LET r == reqs[i]
        IN  r.last = "setCensusHistoryWindow" =>
                /\ ~r.threw
                /\ HasArg(r, "mode") /\ r.apiArgs["mode"] = <<"history">>
                /\ ArgSet(r, "from") /\ ArgSet(r, "to")

\* C22: a Region decoded for a request that lists shard s but not shard t leaves the
\* field of t undefined, whatever tags the body has: asking for 'delegatevotes' does
\* not fill the pinned-dispatch list, asking for 'messages' does not fill the officers.
C22_RegionFieldGating ==
    \A id \in Frames :
        LET f == sends[id]
            r == reqs[f.req]
        IN  (r.type = "region" /\ f.pc = "resolved" /\ f.result.cls = "Region") =>
                /\ (~Includes(getShards(r), <<"name">>) => ~f.value.name.def)
                /\ (~Includes(getShards(r), <<"delegatevotes">>) => ~f.value.delegatevotes.def)
                /\ (~Includes(getShards(r), <<"dispatches">>) => ~f.value.dispatches.def)
                /\ (~Includes(getShards(r), <<"messages">>) => ~f.value.messages.def)
                /\ (~Includes(getShards(r), <<"officers">>) => ~f.value.officers.def)

\* C23: send() does not change the arguments of the request, whether it succeeds or
\* fails: no step of a send chain alters an argument map, and every send() of a
\* two-step command makes its first transport call with mode=prepare and no token.
C23_SendKeepsArguments ==
    [][/\ \A i \in 1..Len(reqs) : reqs'[i].apiArgs = reqs[i].apiArgs
       /\ \A id \in 1..Len(sends') :
             (reqs[sends'[id].req].type \in TwoStep /\ Len(sends'[id].log) > 0) =>
                 /\ sends'[id].log[1].mode = <<"prepare">>
                 /\ sends'[id].log[1].token = <<>>]_vars

\* C24: every transport-level failure reaches the caller of send(): once the HTTP call
\* was rejected, answered with a status that is not a success, or answered with an
\* empty success body, the promise of send() is rejected with an NSError or a subclass
\* of it and never resolved with a value.
C24_TransportFailureRejects ==
    \A id \in Frames :
        LET f == sends[id]
            c == LastCall(f)
            failure == \/ c.failed
                       \/ ~ok(c.status)
                       \/ c.body.kind = "raw" /\ Len(c.body.raw) = 0
        IN  (Len(f.log) > 0 /\ c.answered /\ failure /\ f.pc \in {"resolved", "rejected"}) =>
                /\ f.pc = "rejected"
                /\ f.result.cls \in {"NSError", "InvalidCredentialsError", "RecentLoginError"}

\* C25: after any sequence of shard, addShards, requireShard and convenience-setter
\* calls on a shardable request, the list returned by getShards() holds no shard name
\* twice, holds exactly the names asked for, and keeps them in the order in which
\* they were first added.
C25_ShardListDeduplicated ==
    \A i \in 1..Len(reqs) :
        LET r == reqs[i]
            g == getShards(r)
            first(x) == CHOOSE k \in 1..Len(r.asked) :
                            r.asked[k] = x /\ \A m \in 1..(k - 1) : r.asked[m] # x
        IN  (r.type \in Shardable /\ HasArg(r, "q")) =>
                /\ \A j, k \in 1..Len(g) : g[j] = g[k] => j = k
                /\ {g[j] : j \in 1..Len(g)} = {r.asked[k] : k \in 1..Len(r.asked)}
                /\ \A j, k \in 1..Len(g) : j < k => first(g[j]) < first(g[k])

\* C26: every HTTP call of sendRequest is preceded by exactly one admission recorded
\* for that call; a sendRequest that fails with AuthenticationError (or UserAgentError)
\* records no slot; and the slot of a call stays counted for the full period, also
\* when the HTTP request of that call has failed.
C26_AdmissionPerCall ==
    LET Admissions(id) == {k \in 1..Len(admitLog) : admitLog[k].id = id}
        Fetches(id) == {k \in 1..Len(fetchLog) : fetchLog[k].id = id}
        Counted == {k \in 1..Len(admitLog) : now < admitLog[k].t + RatelimitPeriod}
    IN  /\ \A id \in Frames :
              /\ Cardinality(Admissions(id)) = Len(sends[id].log)
              /\ Cardinality(Fetches(id)) = sends[id].fetches
              /\ sends[id].fetches \in {Len(sends[id].log) - 1, Len(sends[id].log)} \cap Nat
              /\ sends[id].result.cls \in {"AuthenticationError", "UserAgentError"} =>
                     /\ Admissions(id) = {}
                     /\ \A i \in 1..Len(timers) : timers[i].id # id
        /\ \A k \in 1..Len(fetchLog) :
              \E j \in Admissions(fetchLog[k].id) : admitLog[j].t <= fetchLog[k].t
        /\ Len(requests) >= Cardinality(Counted)
        /\ \A k \in Counted :
              \E i \in 1..Len(timers) :
                  /\ timers[i].kind = "remove" /\ timers[i].id = admitLog[k].id
                  /\ timers[i].at = admitLog[k].t + RatelimitPeriod

\* a call whose HTTP request failed is still counted one clock advance later, beside a
\* send that was refused for its missing credential
C26_Witness ==
    \E a, b \in Frames :
        /\ sends[a].pc = "rejected" /\ Len(sends[a].log) = 1 /\ sends[a].log[1].failed
        /\ \E k \in 1..Len(admitLog) : admitLog[k].id = a /\ admitLog[k].t < now
        /\ Len(requests) = 1
        /\ sends[b].result.cls = "AuthenticationError"

\* C28: within one two-step command whose credential no other request refreshes, the
\* execute call is sent only after the prepare response has been processed, and its
\* X-Autologin and X-Pin headers carry the values of the prepare response's headers
\* whenever that response supplied them.
C28_ExecuteCarriesRefreshed ==
    \A k \in 1..Len(fetchLog) :
        LET e == fetchLog[k]
            f == sends[e.id]
            alone == \A b \in Frames \ {e.id} : \A n \in 1..Len(sends[b].log) :
                        sends[b].log[n].rh = NoHeaders
        IN  (e.phase = 2 /\ alone) =>
                /\ reqs[f.req].type \in TwoStep
                /\ f.log[1].answered /\ ~f.log[1].failed /\ ok(f.log[1].status)
                /\ \E j \in 1..(k - 1) : fetchLog[j].id = e.id /\ fetchLog[j].phase = 1
                /\ (f.log[1].rh.auto # Undef => e.hdr.auto = f.log[1].rh.auto)
                /\ (f.log[1].rh.pin # Undef => e.hdr.pin = f.log[1].rh.pin)

\* the execute call of a command went out with the autologin of the prepare response
C28_Witness ==
    \E k \in 1..Len(fetchLog) :
        /\ fetchLog[k].phase = 2 /\ fetchLog[k].mode = <<"execute">>
        /\ sends[fetchLog[k].id].log[1].rh.auto = "a1"
        /\ fetchLog[k].hdr.auto = "a1"
        /\ Len(sends) = 1

\* C29: no step changes the password of a credential; a field that is set is never
\* cleared, and a success response without the X-autologin (X-pin) header leaves the
\* autologin (pin) as it was; a response with a status that is no success and a
\* network failure leave the whole credential unchanged.
C29_CredentialKept ==
    [][/\ cred'.pwd = cred.pwd
       /\ (cred.auto # Undef => cred'.auto # Undef)
       /\ (cred.pin # Undef => cred'.pin # Undef)
       /\ \A id \in Frames :
             (sends[id].pc = "fetching" /\ sends'[id].pc # "fetching") =>
                 LET c == LastCall(sends'[id])
                 IN  /\ (c.failed \/ ~ok(c.status)) => cred' = cred
                     /\ c.rh.auto = Undef => cred'.auto = cred.auto
                     /\ c.rh.pin = Undef => cred'.pin = cred.pin]_vars

\* a success response with X-pin and without X-autologin was processed for a request
\* with credential: the autologin given at creation is still there
C29_Witness ==
    \E id \in Frames :
        /\ reqs[sends[id].req].loginCredentials
        /\ sends[id].pc = "text"
        /\ LastCall(sends[id]).rh = [auto |-> Undef, pin |-> "p1"]
        /\ cred = [pwd |-> "pw", auto |-> "a0", pin |-> "p1"]

\* C30: from a Debate whose cached ballots hold each voter at most once, after any
\* sequence of countVote and discountVote calls every voter name is in at most one of
\* the lists f, a, x and at most once; countVote(v, s) for a name v and a number s
\* leaves the normalized v exactly in the list of s (abstain for every stance but FOR
\* and AGAINST); discountVote(v) leaves v in none and issues a database delete only
\* if v had a cached ballot.
C30_BallotsConsistent ==
    /\ [](LET all == votes.f \o votes.a \o votes.x
           IN  \A j, k \in 1..Len(all) : all[j] = all[k] => j = k)
    /\ [][LET In(l, n) == \E k \in 1..Len(l) : l[k] = n
              ListOf(s) == IF s.n = FOR THEN "f" ELSE IF s.n = AGAINST THEN "a" ELSE "x"
              c == calls'[Len(calls')]
              n == unifyNID(c.voter.s)
          IN  Len(calls') > Len(calls) =>
                /\ (c.op = "countVote" /\ c.voter.type = "string" /\ c.stance.type = "number") =>
                       /\ In(votes'[ListOf(c.stance)], n)
                       /\ \A key \in {"f", "a", "x"} \ {ListOf(c.stance)} : ~In(votes'[key], n)
                       /\ c.statement = "upsert"
                /\ (c.op = "discountVote" /\ c.voter.type = "string") =>
                       /\ ~In(votes'.f \o votes'.a \o votes'.x, n)
                       /\ (c.statement = "delete" => In(votes.f \o votes.a \o votes.x, n))
                       /\ c.statement \in {"delete", "none"}]_vars

\* a voter cached as AGAINST under the name as written was counted again as FOR under
\* the normalized name and moved to the list f
C30_Witness ==
    /\ Len(calls) = 2
    /\ calls[1].op = "countVote" /\ calls[1].voter.s = <<"N", " ", "L">>
    /\ calls[1].stance = [type |-> "number", n |-> AGAINST]
    /\ calls[2].op = "countVote" /\ calls[2].voter.s = <<"n", "_", "l">>
    /\ calls[2].stance = [type |-> "number", n |-> FOR]
    /\ \E k \in 1..Len(votes.f) : votes.f[k] = <<"n", "_", "l">>
    /\ votes.a = <<>>

====
